---- MODULE Spec2Model ----
(***************************************************************************)
(* Model of assets/shop-page.js: the storefront page controller.           *)
(*                                                                         *)
(* Strings are sequences of tokens.  A token is either one separator       *)
(* character (" ", "&", ",", ":") or a maximal run of other characters     *)
(* ("Industry", "hi-vis", "price-asc").  indexOf, substring, trim, split   *)
(* and join work on the tokens the way the JavaScript methods work on      *)
(* the characters.  The tag "Industry: Welding" is                         *)
(* <<"Industry", ":", " ", "Welding">>.                                    *)
(*                                                                         *)
(* The page markup is taken to be complete: every getElementById of the    *)
(* script finds its element.  The product feed element alone may be        *)
(* absent, because loadShopifyProducts handles that case itself.           *)
(***************************************************************************)
EXTENDS Integers, Sequences, FiniteSets, TLC

VARIABLES
    feed,           \* #shopify-product-data: the raw product feed
    requested,      \* the query string the page was opened with
    location,       \* window.location.search, as its list of parameters
    PRODUCTS,       \* the loaded catalog
    FILTER_GROUPS,  \* the derived filter taxonomy
    state,          \* the page's ApplicationState object
    dom,            \* what the last render calls put on the page
    timers,         \* callbacks handed to setTimeout and not yet run
    quickview,      \* product shown by the quick-view drawer, or Null
    autoOpenCount,  \* runs of the deferred openQuickView of init
    scrollCount,    \* runs of the deferred scrollIntoView of renderGrid
    cycle,          \* the handler that ran last: its steps, and the ids of
                    \* the products in its locals filtered and sorted
    console,        \* number of console.error diagnostics
    pc,             \* "start" before init() has run, "ready" after
    call            \* one call of a function of the script taken alone: the
                    \* function, its argument and, once it has run, its outcome

vars == <<feed, requested, location, PRODUCTS, FILTER_GROUPS, state, dom, timers,
          quickview, autoOpenCount, scrollCount, cycle, console, pc, call>>

(***************************************************************************)
(* Bounds of the model.                                                    *)
(***************************************************************************)
MaxPage == 2        \* load-more is followed up to this page
MaxTags == 2        \* longest tag list handed to parseTags taken alone

(***************************************************************************)
(* JavaScript values.                                                      *)
(***************************************************************************)
Null == <<"#null">>             \* null
Undefined == <<"#undefined">>   \* undefined (as a property key: "undefined")
NoNumber == -1                  \* a numeric field that is absent
Empty == <<>>                   \* the empty string ''

Min(a, b) == IF a < b THEN a ELSE b

Range(s) == {s[i] : i \in 1..Len(s)}

\* Keys every object literal inherits from Object.prototype: obj[k] is a
\* truthy non-array value for them although the literal never lists k.
ObjectPrototypeKeys ==
    {<<"constructor">>, <<"toString">>, <<"valueOf">>, <<"hasOwnProperty">>,
     <<"__proto__">>}

(***************************************************************************)
(* String methods.                                                         *)
(***************************************************************************)
\* s.indexOf(x): zero-based position of the first x, -1 when there is none
IndexOf(s, x) ==
    IF \E i \in 1..Len(s) : s[i] = x
    THEN (CHOOSE i \in 1..Len(s) : s[i] = x /\ \A j \in 1..(i - 1) : s[j] # x) - 1
    ELSE -1

\* s.substring(from, to), zero-based, to exclusive
Substring(s, from, to) == SubSeq(s, from + 1, to)

\* s.trim(): white space removed at both ends
Trim(s) ==
    IF \A i \in 1..Len(s) : s[i] = " "
    THEN Empty
    ELSE LET first == CHOOSE i \in 1..Len(s) :
                          s[i] # " " /\ \A j \in 1..(i - 1) : s[j] = " "
             last == CHOOSE i \in 1..Len(s) :
                          s[i] # " " /\ \A j \in (i + 1)..Len(s) : s[j] = " "
         IN  SubSeq(s, first, last)

\* s.split(','): the pieces between the commas; '' splits into ['']
RECURSIVE Split(_)
Split(s) ==
    LET c == IndexOf(s, ",")
    IN  IF c = -1
        THEN <<s>>
        ELSE <<Substring(s, 0, c)>> \o Split(Substring(s, c + 1, Len(s)))

\* list.join(','): undefined and null elements are written as ''
RECURSIVE Join(_)
Join(list) ==
    LET text(v) == IF v = Undefined \/ v = Null THEN Empty ELSE v
    IN  IF list = <<>> THEN Empty
        ELSE IF Len(list) = 1 THEN text(list[1])
        ELSE text(list[1]) \o <<",">> \o Join(Tail(list))

\* The tokens in ascending order of their UTF-16 code units, which is the
\* order of Array.prototype.sort() without a comparator.
Alphabet ==
    <<" ", "&", ",", ":",
      "Arc", "Automotive", "Brand", "Cert", "Certification", "Chemical",
      "Construction", "Electricians", "Feature", "Flame", "Flash", "Gas",
      "Gender", "Hi-Vis", "Industry", "Level", "Manufacturing", "Material",
      "Men", "Oil", "Other", "Protection", "Railway", "Resistant", "Season",
      "Summer", "Type", "Welding", "Winter", "Women", "Zebra",
      "acme", "constructor", "loose", "x">>

Rank(t) == CHOOSE i \in 1..Len(Alphabet) : Alphabet[i] = t

\* a < b for strings: the default comparison of Array.prototype.sort()
StrLess(a, b) ==
    \E i \in 1..(Min(Len(a), Len(b)) + 1) :
        /\ \A j \in 1..(i - 1) : a[j] = b[j]
        /\ \/ i = Len(a) + 1 /\ i <= Len(b)
           \/ i <= Len(a) /\ i <= Len(b) /\ Rank(a[i]) < Rank(b[i])

\* Object.keys(obj).sort() for the set of keys of obj
RECURSIVE SortedKeys(_)
SortedKeys(S) ==
    IF S = {} THEN <<>>
    ELSE LET least == CHOOSE a \in S : \A b \in S \ {a} : StrLess(a, b)
         IN  <<least>> \o SortedKeys(S \ {least})

\* obj[k] || [] for an object whose own properties are arrays
Get(obj, k) == IF k \in DOMAIN obj THEN obj[k] ELSE <<>>

EmptyObject == [k \in {} |-> <<>>]

(***************************************************************************)
(* The words of the catalog, as strings.                                   *)
(***************************************************************************)
Industry == <<"Industry">>
Protection == <<"Protection">>
Gender == <<"Gender">>
Season == <<"Season">>
Welding == <<"Welding">>
Chemical == <<"Chemical">>
Other == <<"Other">>

(***************************************************************************)
(* Dates.  A createdAt string either parses to a day number or does not    *)
(* parse (new Date(s) is then an Invalid Date, whose time value is NaN).   *)
(***************************************************************************)
DateTable == ("day50" :> 50) @@ ("day70" :> 70) @@ ("day71" :> 71) @@ ("day95" :> 95)

\* new Date(s): nan is TRUE for an Invalid Date
DateParse(s) ==
    IF Len(s) = 1 /\ s[1] \in DOMAIN DateTable
    THEN [nan |-> FALSE, t |-> DateTable[s[1]]]
    ELSE [nan |-> TRUE, t |-> 0]

\* new Date() at the time getBadge runs, in days
Now == 100
ThirtyDays == 30

(***************************************************************************)
(* LOAD PRODUCT DATA                                                       *)
(***************************************************************************)
\* parseTags, from the tag at hand on.  threw is TRUE when the callback
\* raised a TypeError: result[category] of an inherited key is truthy and
\* has no indexOf method.
RECURSIVE parseTagsFrom(_, _)
parseTagsFrom(tags, result) ==
    IF tags = <<>>
    THEN [threw |-> FALSE, value |-> result]
    ELSE LET tag == Head(tags)
             colonIndex == IndexOf(tag, ":")
             category == IF colonIndex > 0
                         THEN Trim(Substring(tag, 0, colonIndex))
                         ELSE Other
             value == IF colonIndex > 0
                      THEN Trim(Substring(tag, colonIndex + 1, Len(tag)))
                      ELSE Trim(tag)
         IN  IF value = Empty
             THEN parseTagsFrom(Tail(tags), result)
             ELSE IF category \notin DOMAIN result /\ category \in ObjectPrototypeKeys
             THEN [threw |-> TRUE, value |-> result]
             ELSE IF category \notin DOMAIN result
             THEN parseTagsFrom(Tail(tags), (category :> <<value>>) @@ result)
             ELSE IF IndexOf(result[category], value) = -1
             THEN parseTagsFrom(Tail(tags),
                      [result EXCEPT ![category] = Append(@, value)])
             ELSE parseTagsFrom(Tail(tags), result)

parseTags(tags) == parseTagsFrom(tags, EmptyObject)

\* Mutant: the recency test comes before the price test
getBadgeNewFirst(p) ==
    IF p.createdAt # Empty
       /\ ~DateParse(p.createdAt).nan
       /\ DateParse(p.createdAt).t > Now - ThirtyDays
    THEN <<"new">>
    ELSE IF p.comparePrice # NoNumber /\ p.comparePrice # 0 /\ p.comparePrice > p.price
    THEN <<"sale">>
    ELSE Null

\* getBadge: 'sale', 'new' or null
getBadge(p) ==
    IF p.comparePrice # NoNumber /\ p.comparePrice # 0 /\ p.comparePrice > p.price
    THEN <<"sale">>
    ELSE IF p.createdAt # Empty
            /\ ~DateParse(p.createdAt).nan
            /\ DateParse(p.createdAt).t > Now - ThirtyDays
    THEN <<"new">>
    ELSE Null

\* The record raw.map builds for the entry at position index + 1
normalize(p, index) ==
    [id |-> p.id,
     price |-> p.price,
     comparePrice |-> p.comparePrice,
     rawTags |-> p.tags,
     parsedTags |-> parseTags(p.tags).value,
     createdAt |-> p.createdAt,
     featured |-> index,
     badge |-> getBadge(p)]

\* loadShopifyProducts: the catalog, and the diagnostics it wrote
loadShopifyProducts(f) ==
    IF f.kind = "absent"
    THEN [products |-> <<>>, errors |-> 0]
    ELSE IF f.kind = "malformed"
            \/ \E i \in 1..Len(f.items) : parseTags(f.items[i].tags).threw
    THEN [products |-> <<>>, errors |-> 1]
    ELSE [products |-> [i \in 1..Len(f.items) |-> normalize(f.items[i], i - 1)],
          errors |-> 0]

(***************************************************************************)
(* BUILD FILTER GROUPS                                                     *)
(***************************************************************************)
PREFERRED_ORDER ==
    <<Industry,
      Protection,
      <<"Protection", " ", "Type">>,
      <<"Cert", " ", "Level">>,
      <<"Certification">>,
      <<"Material">>,
      Gender,
      Season,
      <<"Season", " ", "&", " ", "Feature">>,
      <<"Feature">>>>

HIDDEN_CATEGORIES == <<Other>>

\* categoryMap of buildFilterGroups: category -> the set of its values
categoryMap(products) ==
    LET cats == {cat \in UNION {DOMAIN products[i].parsedTags : i \in 1..Len(products)} :
                    IndexOf(HIDDEN_CATEGORIES, cat) = -1}
    IN  [cat \in cats |->
            UNION {Range(Get(products[i].parsedTags, cat)) : i \in 1..Len(products)}]

group(map, cat) == [key |-> cat, label |-> cat, values |-> SortedKeys(map[cat])]

\* Mutant: every category in lexical order, the preferred ones too
buildFilterGroupsLexical(products) ==
    LET map == categoryMap(products)
        all == SortedKeys(DOMAIN map)
    IN  [i \in 1..Len(all) |-> group(map, all[i])]

buildFilterGroups(products) ==
    LET map == categoryMap(products)
        preferred == SelectSeq(PREFERRED_ORDER, LAMBDA cat : cat \in DOMAIN map)
        rest == SelectSeq(SortedKeys(DOMAIN map),
                          LAMBDA cat : cat \notin Range(preferred))
    IN  [i \in 1..Len(preferred) |-> group(map, preferred[i])]
        \o [i \in 1..Len(rest) |-> group(map, rest[i])]

(***************************************************************************)
(* COLLECTION MAP                                                          *)
(***************************************************************************)
COLLECTION_MAP ==
    (<<"hi-vis">> :> [key |-> Protection, value |-> <<"Hi-Vis">>])
    @@ (<<"welding">> :> [key |-> Industry, value |-> Welding])
    @@ (<<"chemical">> :> [key |-> Industry, value |-> Chemical])
    @@ (<<"oil-gas">> :> [key |-> Industry, value |-> <<"Oil", " ", "&", " ", "Gas">>])
    @@ (<<"manufacturing">> :> [key |-> Industry, value |-> <<"Manufacturing">>])
    @@ (<<"automotive">> :> [key |-> Industry, value |-> <<"Automotive">>])
    @@ (<<"construction">> :> [key |-> Industry, value |-> <<"Construction">>])
    @@ (<<"railway">> :> [key |-> Industry, value |-> <<"Railway">>])
    @@ (<<"electricians">> :> [key |-> Industry, value |-> <<"Electricians">>])
    @@ (<<"flame-resistant">> :> [key |-> Protection, value |-> <<"Flame", " ", "Resistant">>])
    @@ (<<"arc-flash">> :> [key |-> Protection, value |-> <<"Arc", " ", "Flash">>])
    @@ (<<"winter">> :> [key |-> Season, value |-> <<"Winter">>])
    @@ (<<"summer">> :> [key |-> Season, value |-> <<"Summer">>])

\* COLLECTION_MAP[slug] is truthy: an own entry, or an inherited property
hasCollection(slug) == slug \in DOMAIN COLLECTION_MAP \/ slug \in ObjectPrototypeKeys

\* COLLECTION_MAP[slug] when truthy; an inherited property has neither a
\* key nor a value field
collectionMapping(slug) ==
    IF slug \in DOMAIN COLLECTION_MAP
    THEN COLLECTION_MAP[slug]
    ELSE [key |-> Undefined, value |-> Undefined]

(***************************************************************************)
(* STATE                                                                   *)
(***************************************************************************)
ITEMS_PER_PAGE == 12

\* The state object as the script creates it
InitialState ==
    [activeFilters |-> EmptyObject,
     sort |-> <<"featured">>,
     collection |-> Null,
     highlightProduct |-> Null,
     currentPage |-> 1]

(***************************************************************************)
(* FILTER LOGIC                                                            *)
(***************************************************************************)
\* Mutant: a product matches only when it carries every selected value
productMatchesGroupAll(product, groupKey, selectedValues) ==
    LET productValues == Get(product.parsedTags, groupKey)
    IN  \A i \in 1..Len(selectedValues) :
            IndexOf(productValues, selectedValues[i]) # -1

productMatchesGroup(product, groupKey, selectedValues) ==
    LET productValues == Get(product.parsedTags, groupKey)
    IN  \E i \in 1..Len(selectedValues) :
            IndexOf(productValues, selectedValues[i]) # -1

\* activeKeys of filterProducts: the keys with a non-empty selection
activeKeys(filters) == {k \in DOMAIN filters : Len(filters[k]) > 0}

filterProducts(products, filters) ==
    IF activeKeys(filters) = {}
    THEN products
    ELSE SelectSeq(products, LAMBDA product :
             \A key \in activeKeys(filters) :
                 productMatchesGroup(product, key, filters[key]))

\* The comparator sortProducts hands to sort() for sortKey, applied to
\* (a, b).  A NaN result counts as +0, as Array.prototype.sort takes it.
compare(sortKey, a, b) ==
    CASE sortKey = <<"price-asc">> -> a.price - b.price
      [] sortKey = <<"price-desc">> -> b.price - a.price
      [] sortKey = <<"newest">> ->
            IF DateParse(a.createdAt).nan \/ DateParse(b.createdAt).nan
            THEN 0
            ELSE DateParse(b.createdAt).t - DateParse(a.createdAt).t
      [] OTHER -> a.featured - b.featured

\* The comparator is a consistent comparison on the list: products that
\* compare equal to a common product compare equal to each other.  The
\* differences of finite numbers always are; NaN results may not be.
consistent(products, sortKey) ==
    \/ sortKey # <<"newest">>
    \/ \A i \in 1..Len(products) : ~DateParse(products[i].createdAt).nan
    \/ \A i, j \in 1..Len(products) : compare(sortKey, products[i], products[j]) = 0

\* Mutant: x goes in front of the elements it compares equal to
insertBefore(sorted, x, sortKey) ==
    LET before == {i \in 1..Len(sorted) : compare(sortKey, sorted[i], x) < 0}
        at == IF before = {} THEN 0
              ELSE CHOOSE i \in before : \A j \in before : j <= i
    IN  SubSeq(sorted, 1, at) \o <<x>> \o SubSeq(sorted, at + 1, Len(sorted))

\* One step of a stable insertion: x goes behind the last element that does
\* not sort after it.
insert(sorted, x, sortKey) ==
    LET before == {i \in 1..Len(sorted) : compare(sortKey, sorted[i], x) <= 0}
        at == IF before = {} THEN 0
              ELSE CHOOSE i \in before : \A j \in before : j <= i
    IN  SubSeq(sorted, 1, at) \o <<x>> \o SubSeq(sorted, at + 1, Len(sorted))

RECURSIVE stableSort(_, _)
stableSort(products, sortKey) ==
    IF products = <<>> THEN <<>>
    ELSE insert(stableSort(SubSeq(products, 1, Len(products) - 1), sortKey),
                products[Len(products)], sortKey)

permutations(products) ==
    {[i \in 1..Len(products) |-> products[f[i]]] : f \in Permutations(1..Len(products))}

\* sortProducts: the outcomes of one call.  sorted is the array returned and
\* input the argument array as the call leaves it.  sort() is stable; with
\* a comparator that is not consistent its order is implementation-defined.
sortProducts(products, sortKey) ==
    IF consistent(products, sortKey)
    THEN {[sorted |-> stableSort(products, sortKey), input |-> products]}
    ELSE {[sorted |-> q, input |-> products] : q \in permutations(products)}

\* Mutant: the group's own selection is not left out
countForValueOwnGroup(allProducts, currentFilters, groupKey, value) ==
    LET baseFiltered == filterProducts(allProducts, currentFilters)
    IN  Len(SelectSeq(baseFiltered, LAMBDA p :
            IndexOf(Get(p.parsedTags, groupKey), value) # -1))

countForValue(allProducts, currentFilters, groupKey, value) ==
    LET keys == {k \in DOMAIN currentFilters :
                    k # groupKey /\ Len(currentFilters[k]) > 0}
        otherFilters == [k \in keys |-> currentFilters[k]]
        baseFiltered == filterProducts(allProducts, otherFilters)
    IN  Len(SelectSeq(baseFiltered, LAMBDA p :
            IndexOf(Get(p.parsedTags, groupKey), value) # -1))

RECURSIVE sumLengths(_, _)
sumLengths(filters, keys) ==
    IF keys = {} THEN 0
    ELSE LET k == CHOOSE x \in keys : TRUE
         IN  Len(filters[k]) + sumLengths(filters, keys \ {k})

totalActiveCount(filters) == sumLengths(filters, DOMAIN filters)

(***************************************************************************)
(* URL PARAM SYNC                                                          *)
(* A query string is the list of its (name, value) parameters, which is    *)
(* what URLSearchParams parses it into and serializes it from.             *)
(***************************************************************************)
Param(name, value) == [name |-> name, value |-> value]

\* params.get(name): the first value under name, or null
ParamGet(params, name) ==
    IF \E i \in 1..Len(params) : params[i].name = name
    THEN params[CHOOSE i \in 1..Len(params) :
                    params[i].name = name
                    /\ \A j \in 1..(i - 1) : params[j].name # name].value
    ELSE Null

\* params.set(name, value): the first parameter called name takes the value
\* and the others called name go; without one the parameter is appended
ParamSet(params, name, value) ==
    IF \E i \in 1..Len(params) : params[i].name = name
    THEN LET first == CHOOSE i \in 1..Len(params) :
                          params[i].name = name
                          /\ \A j \in 1..(i - 1) : params[j].name # name
         IN  Append(SubSeq(params, 1, first - 1), Param(name, value))
             \o SelectSeq(SubSeq(params, first + 1, Len(params)),
                          LAMBDA q : q.name # name)
    ELSE Append(params, Param(name, value))

\* x || fallback for a string or null x
OrElse(x, fallback) == IF x = Null \/ x = Empty THEN fallback ELSE x

\* The FILTER_GROUPS.forEach of readURLParams, from group i on
RECURSIVE readFilters(_, _, _, _)
readFilters(params, groups, i, filters) ==
    IF i > Len(groups) THEN filters
    ELSE LET val == ParamGet(params, groups[i].key)
         IN  IF val # Null /\ val # Empty
             THEN readFilters(params, groups, i + 1,
                      (groups[i].key :> Split(val)) @@ filters)
             ELSE readFilters(params, groups, i + 1, filters)

\* readURLParams: the state object it leaves, from the one it finds
readURLParams(st, params, groups) ==
    LET collection == OrElse(ParamGet(params, <<"collection">>), Null)
        filters == readFilters(params, groups, 1, EmptyObject)
        mapping == collectionMapping(collection)
        seeded == IF collection # Null /\ hasCollection(collection)
                     /\ Len(Get(filters, mapping.key)) = 0
                  THEN (mapping.key :> <<mapping.value>>) @@ filters
                  ELSE filters
    IN  [st EXCEPT !.collection = collection,
                   !.highlightProduct = OrElse(ParamGet(params, <<"product">>), Null),
                   !.sort = OrElse(ParamGet(params, <<"sort">>), <<"featured">>),
                   !.activeFilters = seeded]

\* The FILTER_GROUPS.forEach of writeURLParams, from group i on
RECURSIVE writeFilters(_, _, _, _)
writeFilters(st, groups, i, params) ==
    IF i > Len(groups) THEN params
    ELSE IF Len(Get(st.activeFilters, groups[i].key)) > 0
    THEN writeFilters(st, groups, i + 1,
             ParamSet(params, groups[i].key, Join(st.activeFilters[groups[i].key])))
    ELSE writeFilters(st, groups, i + 1, params)

\* Mutant: the collection is not written
writeURLParamsNoCollection(st, groups) ==
    LET p2 == IF st.sort # Null /\ st.sort # Empty /\ st.sort # <<"featured">>
              THEN ParamSet(<<>>, <<"sort">>, st.sort)
              ELSE <<>>
    IN  writeFilters(st, groups, 1, p2)

\* writeURLParams: the query string handed to history.replaceState
writeURLParams(st, groups) ==
    LET p1 == IF st.collection # Null /\ st.collection # Empty
              THEN ParamSet(<<>>, <<"collection">>, st.collection)
              ELSE <<>>
        p2 == IF st.sort # Null /\ st.sort # Empty /\ st.sort # <<"featured">>
              THEN ParamSet(p1, <<"sort">>, st.sort)
              ELSE p1
    IN  writeFilters(st, groups, 1, p2)

(***************************************************************************)
(* RENDER                                                                  *)
(***************************************************************************)
\* The page before init() has rendered anything.  filterGroups is the
\* content of #shopFilterGroups and of #shopMobileFilterGroups, which update()
\* fills by the same call, and pills that of #shopActiveFilters and of
\* #shopActiveFiltersMobile.
EmptyDom ==
    [filterGroups |-> <<>>,
     pills |-> <<>>,
     clearAllShown |-> TRUE,
     grid |-> <<>>,
     gridShown |-> TRUE,
     emptyShown |-> FALSE,
     paginationShown |-> FALSE,
     productCount |-> 0,
     filterCount |-> 0,
     resultCount |-> 0]

\* Mutant: a box is checked as soon as its group has a selection
checkboxOfGroup(products, filters, grp, value) ==
    LET count == countForValue(products, filters, grp.key, value)
        isChecked == Get(filters, grp.key) # <<>>
    IN  [value |-> value,
         count |-> count,
         checked |-> isChecked,
         disabled |-> (count = 0 /\ ~isChecked)]

\* The <li> renderFilterGroups writes for one value of a group
checkbox(products, filters, grp, value) ==
    LET count == countForValue(products, filters, grp.key, value)
        isChecked == IndexOf(Get(filters, grp.key), value) # -1
    IN  [value |-> value,
         count |-> count,
         checked |-> isChecked,
         disabled |-> (count = 0 /\ ~isChecked)]

\* renderFilterGroups: the groups written into a container
renderFilterGroups(products, groups, filters) ==
    [idx \in 1..Len(groups) |->
        [key |-> groups[idx].key,
         open |-> (idx - 1 < 3),
         items |-> [n \in 1..Len(groups[idx].values) |->
                       checkbox(products, filters, groups[idx], groups[idx].values[n])]]]

\* The pills renderActivePills writes for the groups from i on
RECURSIVE pillsFrom(_, _, _)
pillsFrom(groups, filters, i) ==
    IF i > Len(groups) THEN <<>>
    ELSE LET selected == Get(filters, groups[i].key)
         IN  [n \in 1..Len(selected) |-> [key |-> groups[i].key, value |-> selected[n]]]
             \o pillsFrom(groups, filters, i + 1)

renderActivePills(groups, filters) == pillsFrom(groups, filters, 1)

\* renderGrid: what it leaves of the grid, of state.highlightProduct, and
\* the callbacks it hands to setTimeout
renderGrid(products, st) ==
    IF Len(products) = 0
    THEN [grid |-> <<>>, gridShown |-> FALSE, emptyShown |-> TRUE,
          paginationShown |-> FALSE,
          highlightProduct |-> st.highlightProduct, timers |-> {}]
    ELSE LET visibleProducts ==
                 SubSeq(products, 1, Min(Len(products), st.currentPage * ITEMS_PER_PAGE))
             cards == [i \in 1..Len(visibleProducts) |->
                          [id |-> visibleProducts[i].id,
                           highlighted |-> (st.highlightProduct = visibleProducts[i].id)]]
             found == st.highlightProduct # Null
                      /\ \E i \in 1..Len(cards) : cards[i].id = st.highlightProduct
         IN  [grid |-> cards, gridShown |-> TRUE, emptyShown |-> FALSE,
              paginationShown |-> (Len(visibleProducts) < Len(products)),
              highlightProduct |-> Null,
              timers |-> IF found
                         THEN {[fn |-> "scrollIntoView", id |-> st.highlightProduct],
                               [fn |-> "removeHighlight", id |-> st.highlightProduct]}
                         ELSE {}]

(***************************************************************************)
(* MAIN UPDATE CYCLE                                                       *)
(***************************************************************************)
\* The ids of a list of products, in its order
ids(products) == [i \in 1..Len(products) |-> products[i].id]

\* update(), run on the state object st that the calling handler leaves,
\* over the catalog products: the outcomes of its filter, sort and
\* renderGrid calls, one for each order sort() may leave.  Each holds the
\* globals as the call leaves them, the grid, and the callbacks handed to
\* setTimeout.
update(st, products) ==
    LET filtered == filterProducts(products, st.activeFilters)
        \* filterProducts returns its argument itself when no key is active
        aliased == activeKeys(st.activeFilters) = {}
    IN  {LET rendered == renderGrid(out.sorted, st)
         IN  [PRODUCTS |-> IF aliased THEN out.input ELSE products,
              state |-> [st EXCEPT !.highlightProduct = rendered.highlightProduct],
              filters |-> st.activeFilters,
              rendered |-> rendered,
              timers |-> rendered.timers,
              cycle |-> [filtered |-> ids(filtered), sorted |-> ids(out.sorted),
                         steps |-> <<"filter", "sort", "render", "writeURLParams">>]]
         : out \in sortProducts(filtered, st.sort)}

\* What update() puts on the page in the outcome u, over the taxonomy groups
render(u, groups) ==
    [filterGroups |-> renderFilterGroups(u.PRODUCTS, groups, u.filters),
     pills |-> renderActivePills(groups, u.filters),
     clearAllShown |-> (totalActiveCount(u.filters) > 0),
     grid |-> u.rendered.grid,
     gridShown |-> u.rendered.gridShown,
     emptyShown |-> u.rendered.emptyShown,
     paginationShown |-> u.rendered.paginationShown,
     productCount |-> Len(u.cycle.sorted),
     filterCount |-> totalActiveCount(u.filters),
     resultCount |-> Len(u.cycle.sorted)]

\* Mutant: the URL is not written
commitNoURL(u, groups) ==
    /\ state' = u.state
    /\ PRODUCTS' = u.PRODUCTS
    /\ timers' = timers \cup u.timers
    /\ cycle' = u.cycle
    /\ dom' = render(u, groups)
    /\ location' = location

\* The page takes the outcome u of an update() call: the globals, the
\* renders, and the URL that writeURLParams writes at its end
commit(u, groups) ==
    /\ state' = u.state
    /\ PRODUCTS' = u.PRODUCTS
    /\ timers' = timers \cup u.timers
    /\ cycle' = u.cycle
    /\ dom' = render(u, groups)
    /\ location' = writeURLParams(u.state, groups)

(***************************************************************************)
(* The inputs: product feeds and query strings.                            *)
(***************************************************************************)
Tag(category, value) == category \o <<":", " ">> \o value

ProductA ==
    [id |-> <<"1">>, price |-> 10, comparePrice |-> NoNumber, createdAt |-> <<"day95">>,
     tags |-> <<Tag(Industry, Welding)>>]
ProductB ==
    [id |-> <<"2">>, price |-> 20, comparePrice |-> 25, createdAt |-> <<"day70">>,
     tags |-> <<Tag(Industry, Chemical), <<"loose">>>>]
ProductC ==
    [id |-> <<"3">>, price |-> 10, comparePrice |-> 10, createdAt |-> <<"day50">>,
     tags |-> <<Tag(Industry, Welding), <<"Gender", ":", "Men", " ">>,
                Tag(Industry, Welding)>>]

\* A catalog one entry longer than a page
BigFeed ==
    [i \in 1..(ITEMS_PER_PAGE + 1) |->
        [id |-> <<ToString(i)>>,
         price |-> 10 * (i % 3),
         comparePrice |-> NoNumber,
         createdAt |-> IF i % 2 = 0 THEN <<"day70">> ELSE <<"day71">>,
         tags |-> <<Tag(Industry, IF i % 2 = 0 THEN Welding ELSE Chemical)>>]]

\* Categories the preferred order does not list, the hidden one, and a
\* createdAt that does not parse
WideFeed ==
    <<[id |-> <<"7">>, price |-> 5, comparePrice |-> NoNumber, createdAt |-> <<"never">>,
       tags |-> <<Tag(<<"Zebra">>, <<"x">>), Tag(Other, <<"x">>), Tag(Gender, <<"Men">>),
                  <<"Industry", ":">>, <<" ">>>>],
      [id |-> <<"8">>, price |-> 5, comparePrice |-> 0, createdAt |-> <<"day71">>,
       tags |-> <<Tag(<<"Brand">>, <<"acme">>), <<":", "x">>>>],
      [id |-> <<"6">>, price |-> 5, comparePrice |-> NoNumber, createdAt |-> <<"day95">>,
       tags |-> <<<<" ", "loose">>>>]>>

\* A tag whose category is a key objects inherit
ThrowingFeed ==
    <<[id |-> <<"9">>, price |-> 5, comparePrice |-> NoNumber, createdAt |-> Empty,
       tags |-> <<Tag(<<"constructor">>, <<"x">>)>>]>>

Feeds ==
    {[kind |-> "absent", items |-> <<>>], [kind |-> "malformed", items |-> <<>>]}
    \cup {[kind |-> "json", items |-> q] :
             q \in {<<>>, <<ProductA>>, <<ProductA, ProductB, ProductC>>,
                    BigFeed, WideFeed, ThrowingFeed}}

Collection(slug) == Param(<<"collection">>, slug)
Sort(key) == Param(<<"sort">>, key)
Product(id) == Param(<<"product">>, id)

URLs ==
    {<<>>,
     <<Collection(<<"welding">>)>>,
     <<Collection(<<"welding">>), Param(Industry, Chemical)>>,
     <<Product(<<"1">>), Collection(<<"winter">>)>>,
     <<Collection(<<"clearance">>), Sort(<<"newest">>)>>,
     <<Collection(<<"constructor">>)>>,
     <<Sort(<<"featured">>)>>,
     <<Collection(<<"welding">>), Param(Industry, Empty)>>,
     <<Param(Industry, Welding \o <<",">> \o Chemical), Sort(<<"price-asc">>)>>,
     <<Sort(<<"popular">>), Param(Gender, <<"Men">>), Product(<<"1">>)>>,
     <<Product(<<"1">>)>>,
     <<Param(Industry, <<"Bogus">>)>>,
     <<Param(Industry, Chemical), Param(Industry, Welding)>>,
     <<Product(<<"99">>)>>,
     <<Param(Industry, Welding \o <<",">> \o Welding), Sort(<<"best-selling">>)>>,
     <<Param(Industry, <<",">>)>>}

\* The options picked in the sort dropdown; best-selling and a key that is
\* no option arrive by the URL
SortKeys ==
    {<<"featured">>, <<"price-asc">>, <<"price-desc">>, <<"newest">>}

\* Tag strings: well-formed, untrimmed, without a colon, with a leading
\* colon, without a value, blank, with a second colon, under a category
\* that objects inherit, and under the category of the tags without a colon
TagStrings ==
    {Tag(Industry, Welding),
     <<"Industry", ":", "Chemical", " ">>,
     <<" ", "Gender", " ", ":", " ", "Men">>,
     <<"loose">>,
     <<":", "x">>,
     <<"Industry", ":">>,
     <<" ">>,
     <<"a", ":", "b", ":", "c">>,
     Tag(<<"constructor">>, <<"x">>),
     Tag(Other, <<"loose">>)}

RECURSIVE TagLists(_)
TagLists(n) ==
    IF n = 0 THEN {<<>>}
    ELSE TagLists(n - 1)
         \cup {Append(tags, t) : tags \in {q \in TagLists(n - 1) : Len(q) = n - 1},
                                 t \in TagStrings}

\* Raw entries as getBadge reads them: price, comparePrice and createdAt
BadgeEntries ==
    [price : {0, 10, 20},
     comparePrice : {NoNumber, 0, 10, 20, 25},
     createdAt : {Empty, <<"never">>, <<"day50">>, <<"day70">>, <<"day71">>, <<"day95">>}]

NoCall == [fn |-> "none"]

(***************************************************************************)
(* The page.                                                               *)
(***************************************************************************)
Init ==
    /\ feed \in Feeds
    /\ location \in URLs
    /\ requested = location
    /\ PRODUCTS = <<>>
    /\ FILTER_GROUPS = <<>>
    /\ state = InitialState
    /\ dom = EmptyDom
    /\ timers = {}
    /\ quickview = Null
    /\ autoOpenCount = 0
    /\ scrollCount = 0
    /\ cycle = [filtered |-> <<>>, sorted |-> <<>>, steps |-> <<>>]
    /\ console = 0
    /\ pc = "start"
    /\ call = NoCall

\* init(): load, build the taxonomy, decode the URL, render once, and defer
\* the quick view of the product that state.highlightProduct still names
init ==
    /\ pc = "start"
    /\ LET loaded == loadShopifyProducts(feed)
           groups == buildFilterGroups(loaded.products)
           st == readURLParams(state, location, groups)
       IN  /\ FILTER_GROUPS' = groups
           /\ console' = console + loaded.errors
           /\ \E u \in update(st, loaded.products) :
                LET pid == u.state.highlightProduct
                    product == {i \in 1..Len(u.PRODUCTS) : u.PRODUCTS[i].id = pid}
                    deferred == IF pid # Null /\ product # {}
                                THEN {[fn |-> "openQuickView", id |-> pid]}
                                ELSE {}
                IN  commit([u EXCEPT !.timers = @ \cup deferred], groups)
    /\ pc' = "ready"
    /\ UNCHANGED <<call, feed, requested, quickview, autoOpenCount, scrollCount>>

\* The change handler of a filter checkbox that is on the page and enabled:
\* the user flips it
checkboxChange ==
    /\ pc = "ready"
    /\ \E g \in 1..Len(dom.filterGroups) :
       \E n \in 1..Len(dom.filterGroups[g].items) :
          LET box == dom.filterGroups[g].items[n]
              groupKey == dom.filterGroups[g].key
              value == box.value
              checked == ~box.checked
              old == Get(state.activeFilters, groupKey)
              selected == IF checked
                          THEN IF IndexOf(old, value) = -1 THEN Append(old, value) ELSE old
                          ELSE SelectSeq(old, LAMBDA v : v # value)
              st == [state EXCEPT !.activeFilters = (groupKey :> selected) @@ @,
                                  !.currentPage = 1]
          IN  /\ ~box.disabled
              /\ \E u \in update(st, PRODUCTS) : commit(u, FILTER_GROUPS)
    /\ UNCHANGED <<call, feed, requested, FILTER_GROUPS, quickview, autoOpenCount, scrollCount, console, pc>>

\* The click handler of an active-filter pill
pillClick ==
    /\ pc = "ready"
    /\ \E n \in 1..Len(dom.pills) :
          LET pill == dom.pills[n]
              st == [state EXCEPT
                        !.activeFilters[pill.key] = SelectSeq(@, LAMBDA v : v # pill.value),
                        !.currentPage = 1]
          IN  \E u \in update(st, PRODUCTS) : commit(u, FILTER_GROUPS)
    /\ UNCHANGED <<call, feed, requested, FILTER_GROUPS, quickview, autoOpenCount, scrollCount, console, pc>>

\* Mutant: the page is not reset
sortChangeKeepPage ==
    /\ pc = "ready"
    /\ \E value \in SortKeys :
          LET st == [state EXCEPT !.sort = value]
          IN  \E u \in update(st, PRODUCTS) : commit(u, FILTER_GROUPS)
    /\ UNCHANGED <<call, feed, requested, FILTER_GROUPS, quickview, autoOpenCount, scrollCount, console, pc>>

\* The change handler of the sort dropdown
sortChange ==
    /\ pc = "ready"
    /\ \E value \in SortKeys :
          LET st == [state EXCEPT !.sort = value, !.currentPage = 1]
          IN  \E u \in update(st, PRODUCTS) : commit(u, FILTER_GROUPS)
    /\ UNCHANGED <<call, feed, requested, FILTER_GROUPS, quickview, autoOpenCount, scrollCount, console, pc>>

\* Mutant: the collection survives clear-all
clearAllFiltersKeepCollection ==
    /\ pc = "ready"
    /\ LET st == [state EXCEPT !.activeFilters = EmptyObject,
                               !.currentPage = 1]
       IN  \E u \in update(st, PRODUCTS) : commit(u, FILTER_GROUPS)
    /\ UNCHANGED <<call, feed, requested, FILTER_GROUPS, quickview, autoOpenCount, scrollCount, console, pc>>

\* clearAllFilters, bound to the three clear-all buttons
clearAllFilters ==
    /\ pc = "ready"
    /\ LET st == [state EXCEPT !.activeFilters = EmptyObject,
                               !.collection = Null,
                               !.currentPage = 1]
       IN  \E u \in update(st, PRODUCTS) : commit(u, FILTER_GROUPS)
    /\ UNCHANGED <<call, feed, requested, FILTER_GROUPS, quickview, autoOpenCount, scrollCount, console, pc>>

\* The click handler of the load-more button
loadMore ==
    /\ pc = "ready"
    /\ state.currentPage < MaxPage
    /\ LET st == [state EXCEPT !.currentPage = @ + 1]
           filtered == filterProducts(PRODUCTS, st.activeFilters)
           aliased == activeKeys(st.activeFilters) = {}
       IN  \E out \in sortProducts(filtered, st.sort) :
              LET rendered == renderGrid(out.sorted, st)
              IN  /\ PRODUCTS' = IF aliased THEN out.input ELSE PRODUCTS
                  /\ state' = [st EXCEPT !.highlightProduct = rendered.highlightProduct]
                  /\ dom' = [dom EXCEPT !.grid = rendered.grid,
                                        !.gridShown = rendered.gridShown,
                                        !.emptyShown = rendered.emptyShown,
                                        !.paginationShown = rendered.paginationShown]
                  /\ timers' = timers \cup rendered.timers
                  /\ cycle' = [filtered |-> ids(filtered), sorted |-> ids(out.sorted),
                               steps |-> <<"filter", "sort", "renderGrid">>]
    /\ UNCHANGED <<call, feed, requested, location, FILTER_GROUPS, quickview, autoOpenCount, scrollCount,
                   console, pc>>

\* The deferred highlighted.scrollIntoView of renderGrid
scrollIntoView ==
    /\ \E t \in timers :
          /\ t.fn = "scrollIntoView"
          /\ timers' = timers \ {t}
    /\ scrollCount' = scrollCount + 1
    /\ UNCHANGED <<call, feed, requested, location, PRODUCTS, FILTER_GROUPS, state, dom, quickview,
                   autoOpenCount, cycle, console, pc>>

\* The deferred highlighted.removeAttribute('data-highlighted') of
\* renderGrid; it was deferred longer than the scroll of the same card
removeHighlight ==
    /\ \E t \in timers :
          /\ t.fn = "removeHighlight"
          /\ [fn |-> "scrollIntoView", id |-> t.id] \notin timers
          /\ timers' = timers \ {t}
          /\ dom' = [dom EXCEPT !.grid =
                        [i \in 1..Len(@) |->
                            IF @[i].id = t.id THEN [@[i] EXCEPT !.highlighted = FALSE]
                            ELSE @[i]]]
    /\ UNCHANGED <<call, feed, requested, location, PRODUCTS, FILTER_GROUPS, state, quickview,
                   autoOpenCount, scrollCount, cycle, console, pc>>

\* The deferred openQuickView(pid) of init
openQuickView ==
    /\ \E t \in timers :
          /\ t.fn = "openQuickView"
          /\ timers' = timers \ {t}
          /\ IF \E i \in 1..Len(PRODUCTS) : PRODUCTS[i].id = t.id
             THEN quickview' = t.id /\ autoOpenCount' = autoOpenCount + 1
             ELSE UNCHANGED <<quickview, autoOpenCount>>
    /\ UNCHANGED <<call, feed, requested, location, PRODUCTS, FILTER_GROUPS, state, dom,
                   scrollCount, cycle, console, pc>>

\* closeQuickView, bound to the close button, the overlay and Escape
closeQuickView ==
    /\ pc = "ready"
    /\ quickview' = Null
    /\ UNCHANGED <<call, feed, requested, location, PRODUCTS, FILTER_GROUPS, state, dom, timers,
                   autoOpenCount, scrollCount, cycle, console, pc>>

Next ==
    \/ init
    \/ checkboxChange
    \/ pillClick
    \/ sortChange
    \/ clearAllFilters
    \/ loadMore
    \/ scrollIntoView
    \/ removeHighlight
    \/ openQuickView
    \/ closeQuickView

Spec == Init /\ [][Next]_vars

(***************************************************************************)
(* The functions of the loader taken alone: one call of parseTags or of    *)
(* getBadge on an argument of the sets above, on a page that is not        *)
(* started.                                                                *)
(***************************************************************************)
InitCalls ==
    /\ call \in [fn : {"parseTags"}, arg : TagLists(MaxTags), done : {FALSE}]
               \cup [fn : {"getBadge"}, arg : BadgeEntries, done : {FALSE}]
    /\ feed = [kind |-> "absent", items |-> <<>>]
    /\ location = <<>>
    /\ requested = <<>>
    /\ PRODUCTS = <<>>
    /\ FILTER_GROUPS = <<>>
    /\ state = InitialState
    /\ dom = EmptyDom
    /\ timers = {}
    /\ quickview = Null
    /\ autoOpenCount = 0
    /\ scrollCount = 0
    /\ cycle = [filtered |-> <<>>, sorted |-> <<>>, steps |-> <<>>]
    /\ console = 0
    /\ pc = "start"

\* parseTags(call.arg): it returns a value or throws
callParseTags ==
    /\ call.fn = "parseTags"
    /\ ~call.done
    /\ call' = [fn |-> call.fn, arg |-> call.arg, done |-> TRUE,
                result |-> parseTags(call.arg)]
    /\ UNCHANGED <<feed, requested, location, PRODUCTS, FILTER_GROUPS, state, dom, timers,
                   quickview, autoOpenCount, scrollCount, cycle, console, pc>>

\* getBadge(call.arg)
callGetBadge ==
    /\ call.fn = "getBadge"
    /\ ~call.done
    /\ call' = [fn |-> call.fn, arg |-> call.arg, done |-> TRUE,
                result |-> getBadge(call.arg)]
    /\ UNCHANGED <<feed, requested, location, PRODUCTS, FILTER_GROUPS, state, dom, timers,
                   quickview, autoOpenCount, scrollCount, cycle, console, pc>>

NextCalls ==
    \/ callParseTags
    \/ callGetBadge

SpecCalls == InitCalls /\ [][NextCalls]_vars

(***************************************************************************)
(* Properties.                                                             *)
(***************************************************************************)
\* The values product p carries under category k
Values(p, k) == IF k \in DOMAIN p.parsedTags THEN Range(p.parsedTags[k]) ELSE {}

\* The values selected under key k
Selected(filters, k) == IF k \in DOMAIN filters THEN Range(filters[k]) ELSE {}

\* The keys of filters with a non-empty selection, other than those in skip
Selecting(filters, skip) == {k \in DOMAIN filters \ skip : filters[k] # <<>>}

\* p has, under every selecting key outside skip, a selected value
Passes(p, filters, skip) ==
    \A k \in Selecting(filters, skip) : Values(p, k) \cap Selected(filters, k) # {}

\* Position of the product with this id in the catalog
Position(id) == CHOOSE i \in 1..Len(PRODUCTS) : PRODUCTS[i].id = id

ProductOf(id) == PRODUCTS[Position(id)]

\* C1: filterProducts(PRODUCTS, activeFilters) holds exactly the products
\* that have, under every key with a non-empty selection, one of the
\* selected values; it is a sub-list of PRODUCTS in the order of PRODUCTS,
\* and PRODUCTS itself when no key has a non-empty selection.
C1_FilterLaw ==
    pc = "ready" =>
        LET kept == {i \in 1..Len(PRODUCTS) : Passes(PRODUCTS[i], state.activeFilters, {})}
            filtered == cycle.filtered
        IN  /\ Range(filtered) = {PRODUCTS[i].id : i \in kept}
            /\ Len(filtered) = Cardinality(kept)
            /\ \A a, b \in 1..Len(filtered) :
                   a < b => Position(filtered[a]) < Position(filtered[b])
            /\ Selecting(state.activeFilters, {}) = {} => filtered = ids(PRODUCTS)

\* C1 witness: two keys select, and some but not all products pass
C1_Witness ==
    /\ pc = "ready"
    /\ Cardinality(Selecting(state.activeFilters, {})) >= 2
    /\ \E k \in DOMAIN state.activeFilters : Len(state.activeFilters[k]) >= 2
    /\ 0 < Len(cycle.filtered)
    /\ Len(cycle.filtered) < Len(PRODUCTS)

\* The count the page shows for the value of filter group g at position n
ShownCount(g, n) == dom.filterGroups[g].items[n].count

\* The selections of filters under the keys other than key
Others(filters, key) == [k \in DOMAIN filters \ {key} |-> filters[k]]

\* Every count on the page is the number of products that carry the value
\* under the group's key and pass the selections of the other keys
C2_CountsInv ==
    pc = "ready" =>
        \A g \in 1..Len(FILTER_GROUPS) : \A n \in 1..Len(FILTER_GROUPS[g].values) :
            ShownCount(g, n) =
                Cardinality({i \in 1..Len(PRODUCTS) :
                    /\ FILTER_GROUPS[g].values[n] \in Values(PRODUCTS[i], FILTER_GROUPS[g].key)
                    /\ Passes(PRODUCTS[i], state.activeFilters, {FILTER_GROUPS[g].key})})

\* A step that changes the selection of one group only leaves the counts of
\* that group's values as they were
C2_CountsStep ==
    \A g \in 1..Len(FILTER_GROUPS) :
        (/\ pc = "ready"
         /\ state'.activeFilters # state.activeFilters
         /\ Others(state'.activeFilters, FILTER_GROUPS[g].key)
                = Others(state.activeFilters, FILTER_GROUPS[g].key))
        => \A n \in 1..Len(FILTER_GROUPS[g].values) :
               dom'.filterGroups[g].items[n].count = ShownCount(g, n)

\* C2: countForValue(PRODUCTS, activeFilters, G, v) is the number of products
\* that carry v under G and satisfy the non-empty selections of the other
\* groups; it does not depend on the selection of G, so checking or
\* unchecking a value of G leaves the counts shown for G unchanged.
C2_CountExclusivity == [](C2_CountsInv) /\ [][C2_CountsStep]_vars

\* C2 witness: a group with a selection of its own shows, for one of its
\* values, a count that the selection of another group has lowered
C2_Witness ==
    /\ pc = "ready"
    /\ \E g \in 1..Len(FILTER_GROUPS) : \E n \in 1..Len(FILTER_GROUPS[g].values) :
          /\ Get(state.activeFilters, FILTER_GROUPS[g].key) # <<>>
          /\ Selecting(state.activeFilters, {FILTER_GROUPS[g].key}) # {}
          /\ ShownCount(g, n) >= 1
          /\ ShownCount(g, n) <
                Cardinality({i \in 1..Len(PRODUCTS) :
                    FILTER_GROUPS[g].values[n] \in Values(PRODUCTS[i], FILTER_GROUPS[g].key)})

\* Position of the product with this id in the sorted list of the last cycle
SortedAt(id) == CHOOSE i \in 1..Len(cycle.sorted) : cycle.sorted[i] = id

InitStep == pc = "start" /\ pc' = "ready"

GroupKeys(groups) == {groups[i].key : i \in 1..Len(groups)}

\* C4: in every state after startup, decoding the URL that writeURLParams
\* wrote restores sort and the selection of every key of activeFilters (a
\* key with an empty selection counting as a key without one).
C4_DecodeEncode ==
    pc = "ready" =>
        LET decoded == readURLParams(InitialState, location, FILTER_GROUPS)
        IN  /\ decoded.sort = state.sort
            /\ \A k \in DOMAIN decoded.activeFilters \cup DOMAIN state.activeFilters :
                   Get(decoded.activeFilters, k) = Get(state.activeFilters, k)

\* The query string holds recognized parameters only
Recognized(params, groups) ==
    \A i \in 1..Len(params) :
        params[i].name \in {<<"collection">>, <<"sort">>} \cup GroupKeys(groups)

\* Each parameter occurs once with a non-empty value, sort is not the
\* default, and a collection whose group is in the taxonomy comes with a
\* parameter for that group
Canonical(params, groups) ==
    /\ \A i, j \in 1..Len(params) : params[i].name = params[j].name => i = j
    /\ \A i \in 1..Len(params) : params[i].value # Empty
    /\ ParamGet(params, <<"sort">>) # <<"featured">>
    /\ LET c == ParamGet(params, <<"collection">>)
       IN  (c # Null /\ hasCollection(c) /\ collectionMapping(c).key \in GroupKeys(groups))
           => ParamGet(params, collectionMapping(c).key) # Null

\* The same parameters with the same values
SameParams(p, q) == Len(p) = Len(q) /\ Range(p) = Range(q)

\* C5 as stated: readURLParams and then writeURLParams leave a query string
\* of recognized parameters unchanged.
C5_EncodeDecode ==
    [][InitStep => (Recognized(location, FILTER_GROUPS')
                    => SameParams(location', location))]_vars

\* C5 as amended: readURLParams and then writeURLParams leave a query
\* string of recognized parameters unchanged when each parameter occurs
\* once with a non-empty value, sort is not featured, and a collection whose
\* filter group is in the taxonomy comes with a parameter for that group.
C5_EncodeDecodeCanonical ==
    [][InitStep => ((Recognized(location, FILTER_GROUPS')
                     /\ Canonical(location, FILTER_GROUPS'))
                    => SameParams(location', location))]_vars

\* C5 witness: the page was opened with a canonical query string that names
\* a collection and a filter, and the URL still is that query string
C5_Witness ==
    /\ pc = "ready"
    /\ Recognized(requested, FILTER_GROUPS)
    /\ Canonical(requested, FILTER_GROUPS)
    /\ ParamGet(requested, <<"collection">>) # Null
    /\ \E i \in 1..Len(requested) : requested[i].name \in GroupKeys(FILTER_GROUPS)
    /\ SameParams(location, requested)

\* C6: readURLParams, for a collection parameter that names an entry
\* {key, value} of COLLECTION_MAP, leaves activeFilters[key] the values of
\* the URL's filter parameter for key when the URL carries a non-empty one,
\* and [value] otherwise; any other collection slug seeds no filter, so
\* every key of activeFilters then comes from a filter parameter.
C6_CollectionSeed ==
    [][InitStep =>
        LET c == ParamGet(location, <<"collection">>)
            filters == state'.activeFilters
            explicit(k) == /\ k \in GroupKeys(FILTER_GROUPS')
                           /\ ParamGet(location, k) # Null
                           /\ ParamGet(location, k) # Empty
        IN  IF c \in DOMAIN COLLECTION_MAP
            THEN LET m == COLLECTION_MAP[c]
                 IN  /\ m.key \in DOMAIN filters
                     /\ filters[m.key] = IF explicit(m.key)
                                         THEN Split(ParamGet(location, m.key))
                                         ELSE <<m.value>>
                     /\ \A k \in DOMAIN filters \ {m.key} : explicit(k)
            ELSE \A k \in DOMAIN filters : explicit(k)]_vars

\* The product parameter of the query string the page was opened with names
\* a product of the catalog
HighlightRequested ==
    \E i \in 1..Len(PRODUCTS) : PRODUCTS[i].id = ParamGet(requested, <<"product">>)

\* C7: once init has run for a URL whose product parameter names a product
\* of the catalog, the quick view of that product is pending or has been
\* opened, once in all, and highlightProduct is cleared, so that the card
\* is scrolled to at most once.
C7_AutoOpenOnce ==
    (pc = "ready" /\ HighlightRequested) =>
        LET open == [fn |-> "openQuickView", id |-> ParamGet(requested, <<"product">>)]
        IN  /\ \/ open \in timers /\ autoOpenCount = 0
               \/ open \notin timers /\ autoOpenCount = 1
            /\ state.highlightProduct = Null
            /\ scrollCount <= 1

\* C8: clear-all empties activeFilters, unsets the collection, goes to page
\* 1 and keeps sort; the URL it leaves has no collection and no filter
\* parameter, and the filtered result is the whole catalog.
C8_ClearAll ==
    [][clearAllFilters =>
        /\ state'.activeFilters = EmptyObject
        /\ state'.collection = Null
        /\ state'.currentPage = 1
        /\ state'.sort = state.sort
        /\ \A i \in 1..Len(location') : location'[i].name = <<"sort">>
        /\ ParamGet(location', <<"sort">>) = IF state.sort = <<"featured">> THEN Null
                                             ELSE state.sort
        /\ PRODUCTS' = PRODUCTS
        /\ cycle'.filtered = ids(PRODUCTS)
        /\ Len(cycle'.sorted) = Len(PRODUCTS)]_vars

\* C8 witness: the page was opened on a collection, and is now in the state
\* clear-all leaves, under a sort the user chose
C8_Witness ==
    /\ pc = "ready"
    /\ ParamGet(requested, <<"collection">>) # Null
    /\ state.collection = Null
    /\ state.activeFilters = EmptyObject
    /\ state.sort = <<"price-desc">>
    /\ location = <<Sort(<<"price-desc">>)>>
    /\ Len(PRODUCTS) > 1
    /\ cycle.filtered = ids(PRODUCTS)

\* The (key, value) pairs of the checked checkboxes on the page
CheckedBoxes ==
    {<<dom.filterGroups[g].key, dom.filterGroups[g].items[n].value>> :
        <<g, n>> \in {x \in (1..Len(dom.filterGroups)) \X (1..ITEMS_PER_PAGE) :
                         /\ x[2] <= Len(dom.filterGroups[x[1]].items)
                         /\ dom.filterGroups[x[1]].items[x[2]].checked}}

\* The (key, value) pairs of the pills on the page
Pills == {<<dom.pills[n].key, dom.pills[n].value>> : n \in 1..Len(dom.pills)}

\* The (key, value) pairs selected in activeFilters
SelectedPairs ==
    UNION {{<<k, v>> : v \in Range(state.activeFilters[k])} : k \in DOMAIN state.activeFilters}

\* The (key, value) pairs of the filter taxonomy
TaxonomyPairs ==
    UNION {{<<FILTER_GROUPS[g].key, v>> : v \in Range(FILTER_GROUPS[g].values)} :
              g \in 1..Len(FILTER_GROUPS)}

\* The grid shows the first currentPage * 12 products of the sorted list,
\* which holds the products that pass activeFilters
GridMatchesState ==
    /\ [i \in 1..Len(dom.grid) |-> dom.grid[i].id]
           = SubSeq(cycle.sorted, 1,
                    Min(Len(cycle.sorted), state.currentPage * ITEMS_PER_PAGE))
    /\ Range(cycle.sorted)
           = {PRODUCTS[i].id : i \in {j \in 1..Len(PRODUCTS) :
                                        Passes(PRODUCTS[j], state.activeFilters, {})}}

\* C9 as stated: the checked checkboxes, and the pills, are the pairs
\* selected in activeFilters, and the grid shows the first currentPage * 12
\* entries of the sorted filtered catalog.
C9_RenderMatchesState ==
    pc = "ready" =>
        /\ CheckedBoxes = SelectedPairs
        /\ Pills = SelectedPairs
        /\ GridMatchesState

\* C9 as amended: the checked checkboxes are the pairs selected in
\* activeFilters that the taxonomy holds (a FilterGroup key with one of the
\* group's values), the pills are the pairs selected under a FilterGroup
\* key, and the grid shows the first currentPage * 12 entries of the sorted
\* filtered catalog.
C9_RenderMatchesTaxonomy ==
    pc = "ready" =>
        /\ CheckedBoxes = SelectedPairs \cap TaxonomyPairs
        /\ Pills = {x \in SelectedPairs : x[1] \in GroupKeys(FILTER_GROUPS)}
        /\ GridMatchesState

\* C9 witness: two checked boxes with their pills, and a grid cut at the
\* page size
C9_Witness ==
    /\ pc = "ready"
    /\ Cardinality(CheckedBoxes) = 2
    /\ Pills = CheckedBoxes
    /\ Len(dom.grid) = ITEMS_PER_PAGE
    /\ Len(cycle.sorted) > ITEMS_PER_PAGE

\* Position of a category in PREFERRED_ORDER, 0 when it is not listed
Preferred(cat) ==
    IF cat \in Range(PREFERRED_ORDER)
    THEN CHOOSE i \in 1..Len(PREFERRED_ORDER) : PREFERRED_ORDER[i] = cat
    ELSE 0

TagCategory(tag) ==
    IF IndexOf(tag, ":") > 0 THEN Trim(Substring(tag, 0, IndexOf(tag, ":"))) ELSE Other

TagValue(tag) ==
    IF IndexOf(tag, ":") > 0 THEN Trim(Substring(tag, IndexOf(tag, ":") + 1, Len(tag)))
    ELSE Trim(tag)

\* Position in tags of the first tag that contributes (category, value)
FirstTag(tags, category, value) ==
    CHOOSE i \in 1..Len(tags) :
        /\ TagCategory(tags[i]) = category /\ TagValue(tags[i]) = value
        /\ \A j \in 1..(i - 1) :
               ~(TagCategory(tags[j]) = category /\ TagValue(tags[j]) = value)

\* result is the mapping the claim describes for tags
IsTagMapping(tags, result) ==
    /\ UNION {{<<c, v>> : v \in Range(result[c])} : c \in DOMAIN result}
           = {<<TagCategory(tags[i]), TagValue(tags[i])>> :
                 i \in {j \in 1..Len(tags) : TagValue(tags[j]) # Empty}}
    /\ \A c \in DOMAIN result :
           /\ result[c] # <<>>
           /\ \A m, n \in 1..Len(result[c]) :
                  m < n => /\ result[c][m] # result[c][n]
                           /\ FirstTag(tags, c, result[c][m]) < FirstTag(tags, c, result[c][n])

\* C11: every call of parseTags returns, and returns the mapping in which
\* each tag with a colon behind its first character contributes (trimmed
\* text before the first colon, trimmed text after it) and every other tag
\* (Other, trimmed tag), without the pairs of an empty value, without a
\* value twice in a category, and with each category in first-occurrence
\* order.
C11_ParseTags ==
    (call.fn = "parseTags" /\ call.done) =>
        /\ ~call.result.threw
        /\ IsTagMapping(call.arg, call.result.value)

\* C11 holds of every call that returns: the calls that throw are those
\* with a tag under a category that objects inherit
C11_Returned ==
    (call.fn = "parseTags" /\ call.done) =>
        IF call.result.threw
        THEN \E i \in 1..Len(call.arg) :
                 /\ TagCategory(call.arg[i]) \in ObjectPrototypeKeys
                 /\ TagValue(call.arg[i]) # Empty
        ELSE IsTagMapping(call.arg, call.result.value)

\* C12: the badge of a raw entry is sale, new or none (null, no badge): sale
\* when comparePrice is present and strictly greater than price, whatever
\* createdAt is; otherwise new when createdAt parses to a time strictly
\* after 30 days before now; otherwise none.
C12_Badge ==
    (call.fn = "getBadge" /\ call.done) =>
        LET p == call.arg
            sale == p.comparePrice # NoNumber /\ p.comparePrice > p.price
            recent == /\ ~DateParse(p.createdAt).nan
                      /\ DateParse(p.createdAt).t > Now - ThirtyDays
        IN  /\ call.result \in {<<"sale">>, <<"new">>, Null}
            /\ call.result = <<"sale">> <=> sale
            /\ call.result = <<"new">> <=> (~sale /\ recent)
            /\ call.result = Null <=> (~sale /\ ~recent)

\* C12 witness: a recent entry on sale gets the sale badge
C12_Witness ==
    /\ call.fn = "getBadge"
    /\ call.done
    /\ call.arg.comparePrice > call.arg.price
    /\ DateParse(call.arg.createdAt).t > Now - ThirtyDays
    /\ call.result = <<"sale">>

\* An empty catalog and taxonomy, and a page that shows the empty state
EmptyStateRendered ==
    /\ PRODUCTS = <<>>
    /\ FILTER_GROUPS = <<>>
    /\ cycle.sorted = <<>>
    /\ dom.filterGroups = <<>>
    /\ dom.grid = <<>>
    /\ ~dom.gridShown
    /\ dom.emptyShown
    /\ dom.productCount = 0

\* C13: init, on a feed that is absent or does not parse, loads an empty
\* catalog, records one diagnostic in either case, and completes one update
\* cycle that renders the empty state with an empty taxonomy.
C13_FeedErrors ==
    [][(InitStep /\ feed.kind \in {"absent", "malformed"}) =>
        /\ console' = console + 1
        /\ cycle'.steps = <<"filter", "sort", "render", "writeURLParams">>
        /\ EmptyStateRendered']_vars

\* C13 without the diagnostic of the absent feed: init completes the update
\* cycle that renders the empty state, and records one diagnostic for the
\* feed that does not parse
C13_EmptyState ==
    [][(InitStep /\ feed.kind \in {"absent", "malformed"}) =>
        /\ feed.kind = "malformed" => console' = console + 1
        /\ cycle'.steps = <<"filter", "sort", "render", "writeURLParams">>
        /\ EmptyStateRendered']_vars

\* A step of a handler that changes the state object after startup
Mutation == pc = "ready" /\ state' # state

C15_SortEnum ==
    state.sort \in {<<"featured">>, <<"price-asc">>, <<"price-desc">>, <<"newest">>,
                    <<"best-selling">>}

\* C16: currentPage is an integer of at least 1 in every state; init, a
\* checkbox toggle, a pill removal, a sort change and clear-all leave it 1;
\* load-more adds exactly 1 to it and leaves activeFilters, sort and
\* collection as they are.
C16_CurrentPage ==
    /\ [](state.currentPage \in Nat /\ state.currentPage >= 1)
    /\ [][/\ InitStep => state'.currentPage = 1
          /\ state'.currentPage # 1 =>
                 ~(checkboxChange \/ pillClick \/ sortChange \/ clearAllFilters)
          /\ loadMore => /\ state'.currentPage = state.currentPage + 1
                         /\ state'.activeFilters = state.activeFilters
                         /\ state'.sort = state.sort
                         /\ state'.collection = state.collection]_vars

\* C16 witness: load-more has gone to a later page of a catalog opened on a
\* collection, with a selection and a sort key in place
C16_Witness ==
    /\ pc = "ready"
    /\ state.currentPage > 1
    /\ cycle.steps = <<"filter", "sort", "renderGrid">>
    /\ state.collection # Null
    /\ totalActiveCount(state.activeFilters) > 0
    /\ state.sort # <<"featured">>

\* No value twice and no empty string in any selection of filters
SetLike(filters) ==
    \A k \in DOMAIN filters :
        /\ \A m, n \in 1..Len(filters[k]) : filters[k][m] = filters[k][n] => m = n
        /\ \A n \in 1..Len(filters[k]) : filters[k][n] # Empty

\* C17: in every state, the one decoded from the query string included, no
\* selection of activeFilters holds a value twice or an empty string, and
\* totalActiveCount is the number of distinct selected (group, value) pairs.
C17_SelectionsAreSets ==
    /\ SetLike(state.activeFilters)
    /\ totalActiveCount(state.activeFilters) = Cardinality(SelectedPairs)

\* The handlers keep what C17 asks for: a step from a state whose selections
\* are sets, after startup, leads to one whose selections are sets
C17_HandlersKeepSets ==
    [][(pc = "ready" /\ SetLike(state.activeFilters)) => SetLike(state'.activeFilters)]_vars

====
